---- MODULE Spec2Model ----
(***************************************************************************)
(* The EC-get engine (XactGet, src/ec/getx.go): its coordinating loop, the *)
(* dispatch of restore requests to per-mountpath joggers and the routing   *)
(* of slice responses; and the renewal policy of the xaction registry for  *)
(* the two factories of src/ec/getx.go and src/xact/xs/etl.go.             *)
(*                                                                         *)
(* The jogger loop (getJogger.run), the demand timer (xact.DemandBase),    *)
(* the abort flag of xact.Base, the slice writer and xreg's Renew live in  *)
(* other packages; here they follow the design document.                   *)
(***************************************************************************)
EXTENDS Integers, Sequences, FiniteSets, TLC

\* ------------------------------------------------------------- bounds
QueueCap   == 2   \* capacity of a jogger's workCh: max(getxBurstSize, EC.Burst)
MaxCalls   == 3   \* calls from outside: decode, mountpath, control, stop, response
MaxTasks   == 3   \* xactions the registry ever starts
MaxObjs    == 3   \* object names on one `blob-download` command line

Reqs    == 1..MaxCalls
TaskIds == 1..MaxTasks
ObjIds  == 1..MaxObjs

Mpaths         == {"m1", "m2", "m3"}
AvailMpaths    == {"m1"}          \* fs.Get(): available mountpaths
DisabledMpaths == {"m2"}          \* fs.Get(): disabled mountpaths
Opcodes        == {"respPut", "other"}
RecvResults    == {"ok", "eof", "err"}
Kinds          == {"ec-get", "etl-inline"}   \* apc.ActECGet, apc.ActETLInline
Bcks           == {"b1", "b2"}

\* joggers ever constructed: the initial ones, and at most one per Attach
MaxJoggers == Cardinality(AvailMpaths \cup DisabledMpaths) + MaxCalls
JogIds     == 1..MaxJoggers

VARIABLES
    phase,        \* "Init" | "Running" | "Finished"
    enabled,      \* xactReqBase: ecRequestsEnabled()
    abortErr,     \* xact.Base abort cause, "none" when not aborted
    finishedVia,  \* the branch of Run that called stop(): "none"|"idle"|"clear"|"abort"
    errs,         \* number of AddErr calls
    getJoggers,   \* Mpaths -> jogger id, 0 when the map has no entry
    jog,          \* JogIds -> jogger object
    nextJog,      \* next jogger id to construct
    pc,           \* Reqs -> position of the caller's decode/dispatchReq
    req,          \* Reqs -> request object and what was reported for it
    jref,         \* Reqs -> the jogger dispatchReq looked up (0: none)
    slices,       \* dOwner.slices: uname -> writer state
    events,       \* calls from outside other than decode, so far
    enq,          \* JogIds -> requests in the order they were sent to workCh
    unreceived,   \* messages for mpathReqCh and controlCh that Run did not receive
    tasks,        \* registry: TaskIds -> entry
    lastRenew,    \* what the last Renew saw and returned
    cliPc,        \* blobDownloadHandler: where the command is
    objNames,     \* number of object names of the command; object i is objNames[i-1]
    flag,         \* "progress" | "wait" | "nowait": --progress, --wait/--timeout, neither
    outs,         \* what api.BlobDownload answered, per object, so far
    xids,         \* blobStartAll: the ids collected; 0 is the empty id, i the id of the
                  \* job started for object i
    cnt,          \* blobStartAll: non-empty ids
    stops,        \* the ids xstop was called with, in order
    cliErr,       \* the error blobDownloadHandler returns, "none" before it returns
    wg,           \* wait multiple: the WaitGroup counter
    errCh,        \* the buffered error channel of the wait or of the progress
    job,          \* ObjIds -> the goroutine spawned for object i and the bar it got
    bars,         \* simpleBar: bars[k] is the bar made for object bars[k]
    barsDone      \* indexes of the bars that are completed or aborted

engineVars == <<phase, enabled, abortErr, finishedVia, errs, getJoggers, jog, nextJog,
                pc, req, jref, slices, events, enq, unreceived>>
regVars    == <<tasks, lastRenew>>
cliVars    == <<cliPc, objNames, flag, outs, xids, cnt, stops, cliErr, wg, errCh, job,
                bars, barsDone>>
vars       == <<phase, enabled, abortErr, finishedVia, errs, getJoggers, jog, nextJog,
                pc, req, jref, slices, events, enq, unreceived,
                tasks, lastRenew,
                cliPc, objNames, flag, outs, xids, cnt, stops, cliErr, wg, errCh, job,
                bars, barsDone>>

\* ------------------------------------------------------------- objects
NoJogger == [mpath |-> "", workCh |-> <<>>, stopped |-> FALSE, st |-> "none", cur |-> 0]

\* newGetJogger: an empty bounded workCh, stopCh initialised
newGetJogger(mpath) ==
    [mpath |-> mpath, workCh |-> <<>>, stopped |-> FALSE, st |-> "new", cur |-> 0]

\* live: the jogger was not stopped when the request was sent to its workCh
NewReq == [mpath |-> "", mode |-> "", ret |-> "none", st |-> "new", live |-> FALSE,
           chSent |-> 0, chVal |-> "none", chClosed |-> 0, chBad |-> FALSE,
           cbCalls |-> 0, cbErr |-> "none", freed |-> 0]

\* how the caller waits for the request: the odd ones on req.ErrCh ("ch"), the even
\* ones through req.Callback ("cb"); nothing but the reporting depends on it
ModeOf(r) == IF r % 2 = 1 THEN "ch" ELSE "cb"

\* the order in which newGetXact walks avail, then disabled
InitJogOf(m) == IF m = "m1" THEN 1 ELSE IF m = "m2" THEN 2 ELSE 0

\* newGetXact: one jogger per available and per disabled mountpath
newGetXact ==
    [j \in JogIds |->
        IF \E m \in AvailMpaths \cup DisabledMpaths : InitJogOf(m) = j
        THEN newGetJogger(CHOOSE m \in AvailMpaths \cup DisabledMpaths : InitJogOf(m) = j)
        ELSE NoJogger]

EngineInit ==
    /\ phase = "Init"
    /\ enabled = TRUE
    /\ abortErr = "none"
    /\ finishedVia = "none"
    /\ errs = 0
    /\ getJoggers = [m \in Mpaths |->
                        IF m \in AvailMpaths \cup DisabledMpaths THEN InitJogOf(m) ELSE 0]
    /\ jog = newGetXact
    /\ nextJog = Cardinality(AvailMpaths \cup DisabledMpaths) + 1
    /\ pc = [r \in Reqs |-> "idle"]
    /\ req = [r \in Reqs |-> NewReq]
    /\ jref = [r \in Reqs |-> 0]
    /\ slices = [u \in Reqs |-> "none"]
    /\ events = 0
    /\ enq = [j \in JogIds |-> <<>>]
    /\ unreceived = 0

RegInit ==
    /\ tasks = [t \in TaskIds |-> [kind |-> "", bck |-> "", running |-> FALSE]]
    /\ lastRenew = [kind |-> "", bck |-> "", prev |-> {}, ret |-> 0,
                    started |-> FALSE, after |-> {}]

NoJob == [st |-> "none", bar |-> 0]

\* the command has not been given
CliInit ==
    /\ cliPc = "idle"
    /\ objNames = 0
    /\ flag = "none"
    /\ outs = <<>>
    /\ xids = <<>>
    /\ cnt = 0
    /\ stops = <<>>
    /\ cliErr = "none"
    /\ wg = 0
    /\ errCh = <<>>
    /\ job = [i \in ObjIds |-> NoJob]
    /\ bars = <<>>
    /\ barsDone = {}

Init == EngineInit /\ RegInit /\ CliInit

\* ------------------------------------------------------------- xact.Base, xactReqBase
\* Abort(err): the first cause wins; a finished xaction is not aborted
Abort(err) == IF abortErr = "none" /\ phase # "Finished" THEN err ELSE abortErr

\* calls from outside so far: every decode and every event
Calls == events + Cardinality({r \in Reqs : pc[r] # "idle"})

\* ecRequestsEnabled
ecRequestsEnabled == enabled

\* DemandBase: requests being processed by joggers (IncPending .. DecPending)
Pending == Cardinality({j \in JogIds : jog[j].st = "busy"})

\* DemandBase.IdleTimer: fires when nothing has been pending for the idle window
IdleTimer == Pending = 0

\* ------------------------------------------------------------- request channel
\* req.ErrCh <- v
sendErrCh(q, v) ==
    [q EXCEPT !.chSent = @ + 1, !.chVal = v, !.chBad = (@ \/ q.chClosed > 0)]

\* close(req.ErrCh)
closeErrCh(q) == [q EXCEPT !.chClosed = @ + 1]

\* req.Callback(lom, err)
callback(q, err) == [q EXCEPT !.cbCalls = @ + 1, !.cbErr = err]

\* freeReq(req)
freeReq(q) == [q EXCEPT !.freed = @ + 1]

\* (mutant) decode returns after the callback and does not free the request
decodeFailed_NoFree(q, err) ==
    IF q.mode = "cb" THEN callback(q, err) ELSE q

\* decode, after dispatchReq returned err # nil: callback if any, free
decodeFailed(q, err) ==
    freeReq(IF q.mode = "cb" THEN callback(q, err) ELSE q)

\* (mutant) the channel is closed before the error is sent
dispatchDisabled_CloseFirst(q) ==
    [(IF q.mode = "ch" THEN sendErrCh(closeErrCh(q), "ErrorECDisabled") ELSE q)
        EXCEPT !.ret = "ErrorECDisabled", !.st = "disabled"]

\* (mutant) the error is sent and the channel left open
dispatchDisabled_NoClose(q) ==
    [(IF q.mode = "ch" THEN sendErrCh(q, "ErrorECDisabled") ELSE q)
        EXCEPT !.ret = "ErrorECDisabled", !.st = "disabled"]

\* dispatchReq with requests disabled: report on ErrCh if any, return the error
dispatchDisabled(q) ==
    [(IF q.mode = "ch" THEN closeErrCh(sendErrCh(q, "ErrorECDisabled")) ELSE q)
        EXCEPT !.ret = "ErrorECDisabled", !.st = "disabled"]

\* dispatchReq with no jogger for the mountpath: return errLossMpath
dispatchLossMpath(q) == [q EXCEPT !.ret = "errLossMpath", !.st = "lossMpath"]

\* (mutant) the request overtakes the ones waiting in the channel
sendWorkCh_Front(ch, r) == <<r>> \o ch

\* jogger.workCh <- req
sendWorkCh(ch, r) == Append(ch, r)

\* ------------------------------------------------------------- decode / dispatchReq
\* decode calls dispatchReq, which first reads the enabled flag
DispatchCheck(r, m) ==
    /\ phase # "Init"
    /\ pc[r] = "idle"
    /\ \A k \in Reqs : k < r => pc[k] # "idle"    \* request ids are handed out in order
    /\ Calls < MaxCalls
    /\ LET q == [req[r] EXCEPT !.mpath = m, !.mode = ModeOf(r)] IN
       IF ~ecRequestsEnabled
       THEN /\ req' = [req EXCEPT ![r] = decodeFailed(dispatchDisabled(q), "ErrorECDisabled")]
            /\ pc' = [pc EXCEPT ![r] = "done"]
       ELSE /\ req' = [req EXCEPT ![r] = q]
            /\ pc' = [pc EXCEPT ![r] = "lookup"]
    /\ UNCHANGED <<phase, enabled, abortErr, finishedVia, errs, getJoggers, jog, nextJog,
                   jref, slices, events, enq, unreceived>>
    /\ UNCHANGED <<regVars, cliVars>>

\* jogger, ok := r.getJoggers[lom.Mountpath().Path]
DispatchLookup(r) ==
    /\ pc[r] = "lookup"
    /\ IF getJoggers[req[r].mpath] = 0
       THEN /\ abortErr' = Abort("errLossMpath")
            /\ req' = [req EXCEPT ![r] = decodeFailed(dispatchLossMpath(@), "errLossMpath")]
            /\ pc' = [pc EXCEPT ![r] = "done"]
            /\ jref' = jref
       ELSE /\ jref' = [jref EXCEPT ![r] = getJoggers[req[r].mpath]]
            /\ pc' = [pc EXCEPT ![r] = "send"]
            /\ UNCHANGED <<abortErr, req>>
    /\ UNCHANGED <<phase, enabled, finishedVia, errs, getJoggers, jog, nextJog,
                   slices, events, enq, unreceived>>
    /\ UNCHANGED <<regVars, cliVars>>

\* (mutant) the send does not wait for room in the channel
DispatchSend_NoBlock(r) ==
    /\ pc[r] = "send"
    /\ jog' = [jog EXCEPT ![jref[r]].workCh = sendWorkCh(@, r)]
    /\ enq' = [enq EXCEPT ![jref[r]] = Append(@, r)]
    /\ req' = [req EXCEPT ![r].ret = "nil", ![r].st = "queued",
                           ![r].live = ~jog[jref[r]].stopped]
    /\ pc' = [pc EXCEPT ![r] = "done"]
    /\ UNCHANGED <<phase, enabled, abortErr, finishedVia, errs, getJoggers, nextJog,
                   jref, slices, events, unreceived>>
    /\ UNCHANGED <<regVars, cliVars>>

\* jogger.workCh <- req: blocks while the channel is full
DispatchSend(r) ==
    /\ pc[r] = "send"
    /\ Len(jog[jref[r]].workCh) < QueueCap
    /\ jog' = [jog EXCEPT ![jref[r]].workCh = sendWorkCh(@, r)]
    /\ enq' = [enq EXCEPT ![jref[r]] = Append(@, r)]
    /\ req' = [req EXCEPT ![r].ret = "nil", ![r].st = "queued",
                           ![r].live = ~jog[jref[r]].stopped]
    /\ pc' = [pc EXCEPT ![r] = "done"]
    /\ UNCHANGED <<phase, enabled, abortErr, finishedVia, errs, getJoggers, nextJog,
                   jref, slices, events, unreceived>>
    /\ UNCHANGED <<regVars, cliVars>>

\* ------------------------------------------------------------- getJogger
\* run: case req := <-c.workCh; IncPending; the writer for the slice is registered
JogDequeue(j) ==
    /\ jog[j].st = "idle"
    /\ jog[j].workCh # <<>>
    /\ LET r == Head(jog[j].workCh) IN
       /\ jog' = [jog EXCEPT ![j].workCh = Tail(@), ![j].st = "busy", ![j].cur = r]
       /\ req' = [req EXCEPT ![r].st = "inflight"]
       /\ slices' = [slices EXCEPT ![r] = "waiting"]
    /\ UNCHANGED <<phase, enabled, abortErr, finishedVia, errs, getJoggers, nextJog,
                   pc, jref, events, enq, unreceived>>
    /\ UNCHANGED <<regVars, cliVars>>

\* ec(req) returns: the writer resolved, or a local timeout/error; report, DecPending, free
ecResult(w) == IF w = "done" THEN "nil" ELSE "err"

jogReport(q, err) ==
    LET a == IF q.mode = "ch"
             THEN closeErrCh(IF err # "nil" THEN sendErrCh(q, err) ELSE q)
             ELSE q
        b == IF q.mode = "cb" THEN callback(a, err) ELSE a
    IN  freeReq([b EXCEPT !.st = "finished"])

JogFinish(j) ==
    /\ jog[j].st = "busy"
    /\ LET r == jog[j].cur IN
       /\ req' = [req EXCEPT ![r] = jogReport(@, ecResult(slices[r]))]
       /\ slices' = [slices EXCEPT ![r] = "none"]
    /\ jog' = [jog EXCEPT ![j].st = "idle", ![j].cur = 0]
    /\ UNCHANGED <<phase, enabled, abortErr, finishedVia, errs, getJoggers, nextJog,
                   pc, jref, events, enq, unreceived>>
    /\ UNCHANGED <<regVars, cliVars>>

\* run: case <-c.stopCh.Listen(): return
JogExit(j) ==
    /\ jog[j].st = "idle"
    /\ jog[j].stopped
    /\ jog' = [jog EXCEPT ![j].st = "exited"]
    /\ UNCHANGED <<phase, enabled, abortErr, finishedVia, errs, getJoggers, nextJog,
                   pc, req, jref, slices, events, enq, unreceived>>
    /\ UNCHANGED <<regVars, cliVars>>

\* jog.stop(): close stopCh
jogStop(g) == [g EXCEPT !.stopped = TRUE]

\* ------------------------------------------------------------- XactGet.Run
\* (mutant) gowg.Done() comes before the joggers are started
RunStart_DoneFirst ==
    /\ phase = "Init"
    /\ jog' = jog
    /\ phase' = "Running"
    /\ UNCHANGED <<enabled, abortErr, finishedVia, errs, getJoggers, nextJog,
                   pc, req, jref, slices, events, enq, unreceived>>
    /\ UNCHANGED <<regVars, cliVars>>

\* Run before the loop: go jog.run() for every jogger, then gowg.Done(), which lets
\* getFactory.Start return from xact.GoRunW
RunStart ==
    /\ phase = "Init"
    /\ jog' = [j \in JogIds |-> IF jog[j].st = "new" THEN [jog[j] EXCEPT !.st = "idle"] ELSE jog[j]]
    /\ phase' = "Running"
    /\ UNCHANGED <<enabled, abortErr, finishedVia, errs, getJoggers, nextJog,
                   pc, req, jref, slices, events, enq, unreceived>>
    /\ UNCHANGED <<regVars, cliVars>>

\* (mutant) Finish without stopping the joggers
stop_KeepJoggers(via) ==
    /\ jog' = jog
    /\ phase' = "Finished"
    /\ finishedVia' = via

\* (mutant) the joggers are stopped and the xaction is not finished
stop_NoFinish(via) ==
    /\ jog' = [j \in JogIds |->
                 IF \E m \in Mpaths : getJoggers[m] = j THEN jogStop(jog[j]) ELSE jog[j]]
    /\ phase' = phase
    /\ finishedVia' = finishedVia

\* stop(): DemandBase.Stop, jog.stop() for every jogger of the map, Finish
stop(via) ==
    /\ jog' = [j \in JogIds |->
                 IF \E m \in Mpaths : getJoggers[m] = j THEN jogStop(jog[j]) ELSE jog[j]]
    /\ phase' = "Finished"
    /\ finishedVia' = via

\* (mutant) a new jogger replaces the one the mountpath has
addMpath_Replace(mpath) ==
    /\ jog' = [jog EXCEPT ![nextJog] = [newGetJogger(mpath) EXCEPT !.st = "idle"]]
    /\ getJoggers' = [getJoggers EXCEPT ![mpath] = nextJog]
    /\ nextJog' = nextJog + 1

\* addMpath: a no-op for a mountpath that has a jogger, else a new started jogger
addMpath(mpath) ==
    IF getJoggers[mpath] # 0
    THEN UNCHANGED <<getJoggers, jog, nextJog>>
    ELSE /\ jog' = [jog EXCEPT ![nextJog] = [newGetJogger(mpath) EXCEPT !.st = "idle"]]
         /\ getJoggers' = [getJoggers EXCEPT ![mpath] = nextJog]
         /\ nextJog' = nextJog + 1

\* (mutant) a Detach for an unknown mountpath is ignored
removeMpath_Silent(mpath) ==
    IF getJoggers[mpath] = 0
    THEN UNCHANGED <<abortErr, getJoggers, jog>>
    ELSE /\ jog' = [jog EXCEPT ![getJoggers[mpath]] = jogStop(@)]
         /\ getJoggers' = [getJoggers EXCEPT ![mpath] = 0]
         /\ UNCHANGED abortErr

\* removeMpath: abort on an unknown mountpath, else stop the jogger and delete the entry
removeMpath(mpath) ==
    IF getJoggers[mpath] = 0
    THEN /\ abortErr' = Abort("errDetach")
         /\ UNCHANGED <<getJoggers, jog>>
    ELSE /\ jog' = [jog EXCEPT ![getJoggers[mpath]] = jogStop(@)]
         /\ getJoggers' = [getJoggers EXCEPT ![mpath] = 0]
         /\ UNCHANGED abortErr

\* case mpathRequest := <-r.mpathReqCh, for a request posted by the mountpath listener
RunMpathReq(action, mpath) ==
    /\ phase = "Running"
    /\ Calls < MaxCalls
    /\ IF action = "attach"
       THEN addMpath(mpath) /\ UNCHANGED abortErr
       ELSE removeMpath(mpath) /\ UNCHANGED nextJog
    /\ events' = events + 1
    /\ UNCHANGED <<phase, enabled, finishedVia, errs, pc, req, jref, slices, enq, unreceived>>
    /\ UNCHANGED <<regVars, cliVars>>

\* case <-r.IdleTimer(): stop, return
RunIdleTimer ==
    /\ phase = "Running"
    /\ IdleTimer
    /\ stop("idle")
    /\ UNCHANGED <<enabled, abortErr, errs, getJoggers, nextJog,
                   pc, req, jref, slices, events, enq, unreceived>>
    /\ UNCHANGED <<regVars, cliVars>>

\* (mutant) ClearRequests stops the engine and leaves the requests enabled
RunControl_ClearKeepsEnabled(action) ==
    /\ phase = "Running"
    /\ Calls < MaxCalls
    /\ IF action = "ActEnableRequests"
       THEN /\ enabled' = TRUE
            /\ UNCHANGED <<jog, phase, finishedVia>>
       ELSE /\ enabled' = enabled
            /\ stop("clear")
    /\ events' = events + 1
    /\ UNCHANGED <<abortErr, errs, getJoggers, nextJog, pc, req, jref, slices, enq, unreceived>>
    /\ UNCHANGED <<regVars, cliVars>>

\* case msg := <-r.controlCh, for a message posted by EnableRequests or ClearRequests
RunControl(action) ==
    /\ phase = "Running"
    /\ Calls < MaxCalls
    /\ IF action = "ActEnableRequests"
       THEN /\ enabled' = TRUE
            /\ UNCHANGED <<jog, phase, finishedVia>>
       ELSE /\ enabled' = FALSE
            /\ stop("clear")
    /\ events' = events + 1
    /\ UNCHANGED <<abortErr, errs, getJoggers, nextJog, pc, req, jref, slices, enq, unreceived>>
    /\ UNCHANGED <<regVars, cliVars>>

\* case <-r.ChanAbort(): stop, return
RunAbort ==
    /\ phase = "Running"
    /\ abortErr # "none"
    /\ stop("abort")
    /\ UNCHANGED <<enabled, abortErr, errs, getJoggers, nextJog,
                   pc, req, jref, slices, events, enq, unreceived>>
    /\ UNCHANGED <<regVars, cliVars>>

MpathActions   == {"attach", "detach"}       \* apc.ActMountpathAttach, apc.ActMountpathDetach
ControlActions == {"ActEnableRequests", "ActClearRequests"}

\* (mutant) a message posted after the return of Run is still handled
PostAfterReturn_Handled(action) ==
    /\ phase = "Finished"
    /\ Calls < MaxCalls
    /\ events' = events + 1
    /\ unreceived' = unreceived
    /\ enabled' = IF action = "ActEnableRequests" THEN TRUE
                  ELSE IF action = "ActClearRequests" THEN FALSE ELSE enabled
    /\ getJoggers' = IF action = "detach" THEN [m \in Mpaths |-> 0] ELSE getJoggers
    /\ UNCHANGED <<phase, abortErr, finishedVia, errs, jog, nextJog,
                   pc, req, jref, slices, enq>>
    /\ UNCHANGED <<regVars, cliVars>>

\* a mountpath or control message posted once Run has returned: nothing receives it
PostAfterReturn(action) ==
    /\ phase = "Finished"
    /\ Calls < MaxCalls
    /\ events' = events + 1
    /\ unreceived' = unreceived + 1
    /\ UNCHANGED <<phase, enabled, abortErr, finishedVia, errs, getJoggers, jog, nextJog,
                   pc, req, jref, slices, enq>>
    /\ UNCHANGED <<regVars, cliVars>>

\* ------------------------------------------------------------- callers of the engine
\* Stop(err): r.Abort(err)
Stop ==
    /\ phase # "Init"
    /\ Calls < MaxCalls
    /\ abortErr' = Abort("errStop")
    /\ events' = events + 1
    /\ UNCHANGED <<phase, enabled, finishedVia, errs, getJoggers, jog, nextJog,
                   pc, req, jref, slices, enq, unreceived>>
    /\ UNCHANGED <<regVars, cliVars>>

\* _writerReceive: the writer takes the whole payload, or reports what went wrong:
\* io.ErrUnexpectedEOF when the stream ends early ("eof"), or another error
writerReceive(w, res) ==
    IF res = "ok" THEN "done" ELSE IF res = "eof" THEN "eof" ELSE "failed"

\* (mutant) a truncated stream is recorded like any other read error, without Abort
dispatchResp_NoAbort(uname, opcode, res) ==
    IF opcode = "respPut"
    THEN IF slices[uname] = "none"
         THEN /\ errs' = errs + 1
              /\ UNCHANGED <<slices, abortErr>>
         ELSE /\ slices' = [slices EXCEPT ![uname] = writerReceive(@, res)]
              /\ errs' = IF res = "ok" THEN errs ELSE errs + 1
              /\ abortErr' = abortErr
    ELSE UNCHANGED <<slices, errs, abortErr>>

\* (mutant) a response without a writer is dropped without AddErr
dispatchResp_Silent(uname, opcode, res) ==
    IF opcode = "respPut" /\ slices[uname] # "none"
    THEN /\ slices' = [slices EXCEPT ![uname] = writerReceive(@, res)]
         /\ errs' = IF res = "ok" THEN errs ELSE errs + 1
         /\ abortErr' = IF res = "eof" THEN Abort("errEOF") ELSE abortErr
    ELSE UNCHANGED <<slices, errs, abortErr>>

\* (mutant) every failed read aborts the xaction
dispatchResp_AbortAny(uname, opcode, res) ==
    IF opcode = "respPut"
    THEN IF slices[uname] = "none"
         THEN /\ errs' = errs + 1
              /\ UNCHANGED <<slices, abortErr>>
         ELSE /\ slices' = [slices EXCEPT ![uname] = writerReceive(@, res)]
              /\ errs' = IF res = "ok" THEN errs ELSE errs + 1
              /\ abortErr' = IF res # "ok" THEN Abort("errEOF") ELSE abortErr
    ELSE UNCHANGED <<slices, errs, abortErr>>

\* dispatchResp: route a response to the writer registered under its unique name
dispatchResp(uname, opcode, res) ==
    IF opcode = "respPut"
    THEN IF slices[uname] = "none"
         THEN /\ errs' = errs + 1
              /\ UNCHANGED <<slices, abortErr>>
         ELSE /\ slices' = [slices EXCEPT ![uname] = writerReceive(@, res)]
              /\ errs' = IF res = "ok" THEN errs ELSE errs + 1
              /\ abortErr' = IF res = "eof" THEN Abort("errEOF") ELSE abortErr
    ELSE UNCHANGED <<slices, errs, abortErr>>

DispatchResp(uname, opcode, res) ==
    /\ phase # "Init"
    /\ Calls < MaxCalls
    /\ opcode # "respPut" => res = "ok"    \* the payload is not read
    /\ dispatchResp(uname, opcode, res)
    /\ events' = events + 1
    /\ UNCHANGED <<phase, enabled, finishedVia, getJoggers, jog, nextJog, pc, req, jref, enq, unreceived>>
    /\ UNCHANGED <<regVars, cliVars>>

\* ------------------------------------------------------------- the engine
Next ==
    \/ RunStart
    \/ \E a \in MpathActions, m \in Mpaths : RunMpathReq(a, m)
    \/ RunIdleTimer
    \/ \E a \in ControlActions : RunControl(a)
    \/ RunAbort
    \/ \E a \in MpathActions \cup ControlActions : PostAfterReturn(a)
    \/ \E r \in Reqs, m \in Mpaths : DispatchCheck(r, m)
    \/ \E r \in Reqs : DispatchLookup(r)
    \/ \E r \in Reqs : DispatchSend(r)
    \/ \E j \in JogIds : JogDequeue(j)
    \/ \E j \in JogIds : JogFinish(j)
    \/ \E j \in JogIds : JogExit(j)
    \/ Stop
    \/ \E u \in Reqs, op \in Opcodes, res \in RecvResults : DispatchResp(u, op, res)

Spec == Init /\ [][Next]_vars

\* the goroutine of Run is scheduled: when its select has a ready case that does not
\* wait for a sender, it takes one
Fairness == WF_vars(RunStart \/ RunIdleTimer \/ RunAbort)

FairSpec == Spec /\ Fairness

\* ------------------------------------------------------------- claims: engine
\* the request was sent to the workCh of some jogger
InEnq(r) == \E j \in JogIds : \E i \in 1..Len(enq[j]) : enq[j][i] = r

\* the submitter of the request has its terminal outcome: a value on ErrCh or its
\* close (nil), or a call of the Callback
Resolved(r) == req[r].chSent > 0 \/ req[r].chClosed > 0 \/ req[r].cbCalls > 0

\* Run has returned and every jogger goroutine has returned
AllReturned == phase = "Finished" /\ \A j \in JogIds : jog[j].st \in {"none", "exited"}

\* C2: no-hang: once the engine and all its joggers have terminated (by abort,
\* ClearRequests or idle timeout, with or without a detach before), every request
\* that was queued on a jogger then still running has received its terminal outcome.
C2_NoHang ==
    (AllReturned /\ finishedVia \in {"abort", "clear"}) =>
        \A r \in Reqs : (InEnq(r) /\ req[r].live) => Resolved(r)

\* C3: on the result channel of a request at most one value is ever sent, the channel
\* is closed at most once, and nothing is sent after the close.
C3_AtMostOneTerminalValue ==
    \A r \in Reqs : req[r].chSent <= 1 /\ req[r].chClosed <= 1 /\ ~req[r].chBad

C3_Witness ==
    \E r \in Reqs : req[r].mode = "ch" /\ req[r].st = "finished"
                     /\ req[r].chSent = 1 /\ req[r].chClosed = 1

\* the step in which the caller of request r reads the enabled flag
ChecksFlag(r) == pc[r] = "idle" /\ pc'[r] # "idle"

\* C4 as stated: a dispatch that finds the requests disabled enqueues nothing, reports
\* the disabled-state error on the result channel, and does not return it.
C4_NotInReturnValue ==
    [][\A r \in Reqs : (ChecksFlag(r) /\ ~enabled) =>
            /\ jog' = jog /\ enq' = enq
            /\ req'[r].mode = "ch" => req'[r].chVal = "ErrorECDisabled"
            /\ req'[r].ret # "ErrorECDisabled"]_vars

\* C4 as amended: a dispatch that finds the requests disabled enqueues nothing; the
\* disabled-state error is sent on the result channel, if the request has one, and the
\* channel closed; dispatchReq returns the same error to decode, which hands it to the
\* callback, if the request has one.
C4_DisabledNotEnqueued ==
    [][\A r \in Reqs : (ChecksFlag(r) /\ ~enabled) =>
            /\ jog' = jog /\ enq' = enq /\ pc'[r] = "done"
            /\ req'[r].ret = "ErrorECDisabled"
            /\ req'[r].mode = "ch" =>
                  /\ req'[r].chSent = 1 /\ req'[r].chVal = "ErrorECDisabled"
                  /\ req'[r].chClosed = 1 /\ req'[r].cbCalls = 0
            /\ req'[r].mode = "cb" =>
                  /\ req'[r].cbCalls = 1 /\ req'[r].cbErr = "ErrorECDisabled"
                  /\ req'[r].chSent = 0 /\ req'[r].chClosed = 0]_vars

C4_Witness ==
    /\ ~enabled
    /\ \E r \in Reqs : req[r].mode = "ch" /\ req[r].st = "disabled"
    /\ \E r \in Reqs : req[r].mode = "cb" /\ req[r].st = "disabled"

\* the step in which the caller of request r looks up the jogger of its mountpath
LooksUp(r) == pc[r] = "lookup" /\ pc'[r] # "lookup"

\* C5: a dispatch that finds no jogger for the mountpath changes no queue and the
\* unknown-mount error reaches the submitter of the request: on its result channel,
\* or through its callback.
C5_UnknownMountReported ==
    [][\A r \in Reqs : (LooksUp(r) /\ getJoggers[req[r].mpath] = 0) =>
            /\ jog' = jog /\ enq' = enq /\ pc'[r] = "done"
            /\ req'[r].ret = "errLossMpath"
            /\ req'[r].chSent > 0 \/ req'[r].cbCalls > 0]_vars

\* the step in which the caller of request r sends it to the workCh of the jogger it
\* looked up
Enqueues(r) == pc[r] = "send" /\ pc'[r] = "done"

\* C6: no request is sent to the workCh of a jogger that the engine has already
\* stopped and removed from the mount table.
C6_NotEnqueuedOnRemoved ==
    [][\A r \in Reqs : Enqueues(r) =>
            ~(jog[jref[r]].stopped /\ getJoggers[jog[jref[r]].mpath] # jref[r])]_vars

\* C7: on one jogger the requests are processed one at a time in the order in which
\* they were sent: when a request is in flight or finished, all sent before it to the
\* same jogger are finished.
C7_SequentialInOrder ==
    \A j \in JogIds : \A i, k \in 1..Len(enq[j]) :
        (i < k /\ req[enq[j][k]].st \in {"inflight", "finished"}) =>
            req[enq[j][i]].st = "finished"

C7_Witness ==
    \E j \in JogIds :
        /\ Len(enq[j]) >= 2
        /\ req[enq[j][1]].st = "finished"
        /\ req[enq[j][2]].st = "inflight"

\* requests waiting in some workCh
Queued == {r \in Reqs : \E j \in JogIds : \E i \in 1..Len(jog[j].workCh) : jog[j].workCh[i] = r}

\* C8: the engine does not leave through the idle-timeout branch while a request is
\* queued or in flight.
C8_NoIdleStopWithRequests ==
    [][(phase = "Running" /\ finishedVia' = "idle") => (Queued = {} /\ Pending = 0)]_vars

\* a running engine with nothing queued, in flight or being dispatched, and not aborted
Quiet ==
    /\ phase = "Running"
    /\ abortErr = "none"
    /\ Queued = {}
    /\ Pending = 0
    /\ \A r \in Reqs : pc[r] \in {"idle", "done"}

\* the engine left through the idle-timeout branch: Finished, no abort cause, every
\* jogger stopped
IdleFinished ==
    /\ phase = "Finished"
    /\ finishedVia = "idle"
    /\ abortErr = "none"
    /\ \A j \in JogIds : jog[j].st # "none" => jog[j].stopped

\* C9: a quiet running engine does not stay so for ever, and unless a call from
\* outside comes first, the step that ends the quiet is the idle-timeout branch: all
\* joggers stopped, Finished, no abort cause.
C9_IdleEngineTerminates ==
    /\ Quiet ~> ~Quiet
    /\ [][(Quiet /\ ~Quiet' /\ Calls' = Calls) => IdleFinished']_vars

C9_Witness ==
    /\ IdleFinished
    /\ \E r \in Reqs : req[r].st = "finished"
    /\ \E j \in JogIds : jog[j].st = "exited"

\* the step that hands a slice response for unique name u to dispatchResp
Delivers(u) == \E res \in RecvResults : DispatchResp(u, "respPut", res)

\* C10: a slice response for a unique name with no registered writer changes no writer
\* and no registration, and is recorded as an error of the engine.
C10_NoWriterIsError ==
    [][\A u \in Reqs : (Delivers(u) /\ slices[u] = "none") =>
            /\ slices' = slices
            /\ errs' = errs + 1]_vars

\* one error is recorded, and not by a failed read: no writer has failed and no request
\* has finished with an error, while another request waits for its slice
C10_Witness ==
    /\ errs = 1
    /\ \E u \in Reqs : slices[u] = "waiting"
    /\ \A u \in Reqs : slices[u] \in {"none", "waiting"}
    /\ \A r \in Reqs : req[r].chVal # "err" /\ req[r].cbErr # "err"

\* the step that hands a truncated slice response to the registered writer of u
DeliversTruncated(u) ==
    /\ DispatchResp(u, "respPut", "eof")
    /\ slices[u] # "none"

\* the jogger finishes the request whose writer saw the stream end early
FinishesTruncated(j) ==
    /\ jog[j].st = "busy" /\ jog'[j].st = "idle"
    /\ slices[jog[j].cur] = "eof"

ReportsError(q) ==
    /\ q.mode = "ch" => (q.chSent = 1 /\ q.chVal = "err")
    /\ q.mode = "cb" => (q.cbCalls = 1 /\ q.cbErr = "err")

\* C11: a slice response that ends before its expected length, for a registered
\* writer, is recorded as an error of the engine and aborts a running engine; the
\* request waiting for that writer finishes with an error; and an aborted running
\* engine eventually is Finished, the abort cause kept.
C11_TruncatedAborts ==
    /\ [][\A u \in Reqs : DeliversTruncated(u) =>
              /\ errs' = errs + 1
              /\ phase = "Running" => abortErr' # "none"
              /\ (phase = "Running" /\ abortErr = "none") => abortErr' = "errEOF"]_vars
    /\ [][\A j \in JogIds : FinishesTruncated(j) => ReportsError(req'[jog[j].cur])]_vars
    /\ (phase = "Running" /\ abortErr = "errEOF") ~> (phase = "Finished" /\ abortErr = "errEOF")

C11_Witness ==
    /\ phase = "Finished" /\ finishedVia = "abort" /\ abortErr = "errEOF"
    /\ errs = 1
    /\ \E r \in Reqs : req[r].st = "finished" /\ req[r].chVal = "err"

\* Run has handled ClearRequests
Cleared == finishedVia = "clear"

\* C12: once Run has handled ClearRequests the requests are disabled, every jogger is
\* stopped and the engine is Finished, and this stays so: the requests are never
\* enabled again, and every decode that starts later is refused with the
\* disabled-state error and reaches no workCh.
C12_ClearIsFinal ==
    /\ [](Cleared =>
            /\ phase = "Finished" /\ ~enabled
            /\ \A j \in JogIds : jog[j].st # "none" => jog[j].stopped)
    /\ [][Cleared => Cleared']_vars
    /\ [][\A r \in Reqs : (ChecksFlag(r) /\ Cleared) =>
              /\ req'[r].ret = "ErrorECDisabled" /\ req'[r].st = "disabled"
              /\ pc'[r] = "done"
              /\ jog' = jog /\ enq' = enq]_vars

C12_Witness ==
    /\ Cleared
    /\ \E r \in Reqs : req[r].st = "queued"
    /\ \E r \in Reqs : req[r].st = "disabled" /\ req[r].mode = "cb"

\* C13: once the engine is Finished, by idle timeout, ClearRequests or abort, no later
\* step, and so no Attach, Detach, EnableRequests or ClearRequests posted to it, changes
\* its lifecycle state, the way it finished, its mount table or the enabled flag.
C13_FinishedIsFinal ==
    [][phase = "Finished" =>
          /\ phase' = "Finished" /\ finishedVia' = finishedVia
          /\ getJoggers' = getJoggers
          /\ enabled' = enabled]_vars

C13_Witness ==
    /\ phase = "Finished"
    /\ unreceived >= 2
    /\ \E m \in Mpaths : getJoggers[m] # 0

\* joggers that are running: constructed, go run() issued, not returned
Started == {j \in JogIds : jog[j].st \in {"idle", "busy"}}

\* C14: an Attach for a mountpath without a jogger constructs and starts exactly one
\* jogger and enters it in the map under that mountpath; an Attach for a mountpath
\* that has a jogger keeps the map, every jogger and every workCh as they are and
\* starts nothing; neither aborts the engine, changes its phase or the enabled flag.
C14_AttachIdempotent ==
    [][\A m \in Mpaths : RunMpathReq("attach", m) =>
          /\ abortErr' = abortErr /\ phase' = phase /\ enabled' = enabled
          /\ getJoggers[m] # 0 =>
                /\ getJoggers' = getJoggers /\ jog' = jog /\ nextJog' = nextJog
          /\ getJoggers[m] = 0 =>
                /\ getJoggers'[m] # 0
                /\ \A n \in Mpaths \ {m} : getJoggers'[n] = getJoggers[n]
                /\ jog[getJoggers'[m]].st = "none"
                /\ jog'[getJoggers'[m]] = [newGetJogger(m) EXCEPT !.st = "idle"]
                /\ \A j \in JogIds \ {getJoggers'[m]} : jog'[j] = jog[j]
                /\ Started' = Started \cup {getJoggers'[m]}]_vars

\* m3 was attached and has one jogger, which holds a request; one more message has
\* been handled and no further jogger was constructed
C14_Witness ==
    /\ events = 2 /\ nextJog = Cardinality(AvailMpaths \cup DisabledMpaths) + 2
    /\ getJoggers["m3"] # 0
    /\ jog[getJoggers["m3"]].workCh # <<>>
    /\ phase = "Running" /\ abortErr = "none" /\ unreceived = 0 /\ errs = 0
    /\ \A m \in Mpaths : getJoggers[m] # 0

\* C15: a Detach for a mountpath of the map stops the jogger of that mountpath and
\* deletes that entry, and changes no other entry and no other jogger; a Detach for a
\* mountpath the map does not have leaves map and joggers as they are and aborts the
\* engine, with the detach error as the cause unless it was aborted before.
C15_Detach ==
    [][\A m \in Mpaths : RunMpathReq("detach", m) =>
          /\ getJoggers[m] # 0 =>
                /\ getJoggers'[m] = 0
                /\ \A n \in Mpaths \ {m} : getJoggers'[n] = getJoggers[n]
                /\ jog' = [jog EXCEPT ![getJoggers[m]].stopped = TRUE]
                /\ abortErr' = abortErr
          /\ getJoggers[m] = 0 =>
                /\ getJoggers' = getJoggers /\ jog' = jog
                /\ abortErr' # "none"
                /\ abortErr = "none" => abortErr' = "errDetach"]_vars

C15_Witness ==
    /\ abortErr = "errDetach"
    /\ getJoggers["m1"] = 0 /\ jog[InitJogOf("m1")].stopped
    /\ getJoggers["m2"] # 0 /\ ~jog[getJoggers["m2"]].stopped

\* the mountpaths fs.Get() reported to newGetXact
KnownMpaths == AvailMpaths \cup DisabledMpaths

\* getFactory.Start has returned: GoRunW waited for the gowg.Done() of Run
StartReturned == phase # "Init"

\* C16: until Start has returned no caller has used the engine; and once it has, every
\* mountpath known at construction, available or disabled, has its own jogger, and
\* that jogger has been started.
C16_StartedBeforeHandle ==
    /\ ~StartReturned => (Calls = 0 /\ unreceived = 0)
    /\ \A m \in KnownMpaths :
          /\ InitJogOf(m) \in JogIds
          /\ jog[InitJogOf(m)].mpath = m
          /\ \A n \in KnownMpaths \ {m} : InitJogOf(n) # InitJogOf(m)
          /\ StartReturned => jog[InitJogOf(m)].st \in {"idle", "busy", "exited"}

\* the first call after Start is a request for the disabled mountpath, and its jogger
\* works on it
C16_Witness ==
    /\ Calls = 1
    /\ \E m \in DisabledMpaths :
          /\ jog[InitJogOf(m)].st = "busy"
          /\ req[jog[InitJogOf(m)].cur].mpath = m

\* the engine carries an abort cause
Aborted == abortErr # "none"

\* Run has returned with every jogger of the map stopped
Terminated ==
    /\ phase = "Finished"
    /\ \A m \in Mpaths : getJoggers[m] # 0 => jog[getJoggers[m]].stopped

\* C17: whenever the abort of the engine is signalled, whatever the cause, Run
\* eventually has stopped every jogger of the map, finished the xaction and returned;
\* and the abort cause, once set, stays what it is.
C17_AbortTerminates ==
    /\ Aborted ~> (Terminated /\ Aborted)
    /\ [][Aborted => abortErr' = abortErr]_vars

C17_Witness ==
    /\ Terminated /\ finishedVia = "abort" /\ abortErr = "errStop"
    /\ \E j \in JogIds : jog[j].st = "exited" /\ jog[j].workCh # <<>>

\* C18: a response whose opcode is not the slice/replica one changes no writer and
\* becomes an error of the engine: it is added to the errors of the xaction, or it
\* aborts it.
C18_BadOpcodeIsError ==
    [][\A u \in Reqs, op \in Opcodes \ {"respPut"} : DispatchResp(u, op, "ok") =>
          /\ slices' = slices
          /\ errs' > errs \/ (abortErr = "none" /\ abortErr' # "none")]_vars

\* the caller of request r is blocked in the send to a full workCh
Blocked(r) == pc[r] = "send" /\ Len(jog[jref[r]].workCh) >= QueueCap

\* C19: no workCh ever holds more requests than its capacity; a request whose caller
\* is at the send, blocked or not, has not been refused, reported, freed or put in a
\* queue; and the send appends it to the workCh of the jogger looked up, behind the
\* requests that wait there.
C19_BoundedQueueBlocks ==
    /\ [](\A j \in JogIds : Len(jog[j].workCh) <= QueueCap)
    /\ [](\A r \in Reqs : pc[r] = "send" =>
              /\ req[r].ret = "none" /\ req[r].st = "new"
              /\ ~Resolved(r) /\ req[r].freed = 0
              /\ r \notin Queued /\ ~InEnq(r))
    /\ [][\A r \in Reqs : Enqueues(r) =>
              /\ ~Blocked(r)
              /\ jog'[jref[r]].workCh = Append(jog[jref[r]].workCh, r)
              /\ req'[r].ret = "nil"]_vars
    /\ [][\A r \in Reqs : (Blocked(r) /\ ~Blocked(r)') =>
              \E j \in JogIds : jog[j].st = "idle" /\ jog'[j].st = "busy"]_vars

\* a caller waits at the full workCh of a running jogger
C19_Witness ==
    \E r \in Reqs :
        /\ Blocked(r)
        /\ jog[jref[r]].st = "idle" /\ ~jog[jref[r]].stopped
        /\ phase = "Running"

\* the joggers to whose workCh request r was sent, and those working on it
SentTo(r)    == {j \in JogIds : \E i \in 1..Len(enq[j]) : enq[j][i] = r}
WorkingOn(r) == {j \in JogIds : jog[j].st = "busy" /\ jog[j].cur = r}

\* how often request r was sent to a workCh
TimesSent(r) ==
    Cardinality({p \in JogIds \X (1..(MaxCalls + 1)) :
                    p[2] <= Len(enq[p[1]]) /\ enq[p[1]][p[2]] = r})

FinishedOpen == phase = "Finished" /\ finishedVia \in {"idle", "abort"} /\ enabled

\* request r is in the workCh of a stopped jogger
OnStopped(r) ==
    \E j \in JogIds : jog[j].stopped /\ \E i \in 1..Len(jog[j].workCh) : jog[j].workCh[i] = r

\* C22: a request whose decode starts after the engine has finished by idle timeout
\* or abort is never put in the workCh of a stopped jogger.
C22_NoSubmitAfterFinished ==
    \A r \in Reqs : [](((pc[r] = "idle") /\ FinishedOpen) => [](~OnStopped(r)))

\* the step that hands to dispatchResp a slice response that finds no writer, or whose
\* read fails with an error other than the unexpected end of the stream
DeliversNonFatal(u) ==
    \/ Delivers(u) /\ slices[u] = "none"
    \/ DispatchResp(u, "respPut", "err") /\ slices[u] # "none"

\* C23: a slice response that finds no writer, or whose read fails otherwise than by
\* an unexpected end of the stream, adds one error to the xaction and neither aborts
\* it nor changes its phase, its mount table or any jogger.
C23_OnlyTruncatedAborts ==
    [][\A u \in Reqs : DeliversNonFatal(u) =>
          /\ errs' = errs + 1
          /\ abortErr' = abortErr
          /\ phase' = phase /\ finishedVia' = finishedVia
          /\ getJoggers' = getJoggers /\ jog' = jog]_vars

\* two such responses came for a running engine, at least one of them a failed read:
\* it runs on with two errors and no abort cause
C23_Witness ==
    /\ phase = "Running" /\ abortErr = "none"
    /\ errs = 2
    /\ \E u \in Reqs : slices[u] = "failed"
    /\ \A u \in Reqs : slices[u] # "eof"
    /\ Cardinality({r \in Reqs : pc[r] # "idle"}) = 1

\* ------------------------------------------------------------- xreg: factories, Renew
\* (mutant) the EC-get factory lets a second engine start
getFactoryWPR_KeepBoth == "WprKeepAndStartNew"
\* getFactory.WhenPrevIsRunning (xreg settles a demand xaction through usePrev before
\* it gets here; the answer is the same)
getFactoryWPR == "WprUse"

\* etlFactory.WhenPrevIsRunning
etlFactoryWPR == "WprKeepAndStartNew"

WhenPrevIsRunning(kind) == IF kind = "ec-get" THEN getFactoryWPR ELSE etlFactoryWPR

\* factory New: getFactory keeps the bucket, etlFactory takes none
FactoryBck(kind, bck) == IF kind = "ec-get" THEN bck ELSE "nil"

RunningOf(kind, bck) ==
    {t \in TaskIds : tasks[t].running /\ tasks[t].kind = kind /\ tasks[t].bck = bck}

FreeTasks == {t \in TaskIds : tasks[t].kind = ""}

\* Renew(kind, bucket): start and register when the key has no live entry, else do
\* what the factory's WhenPrevIsRunning says
renew(kind, bck0) ==
    LET    bck  == FactoryBck(kind, bck0)
           prev == RunningOf(kind, bck)
           new  == CHOOSE t \in FreeTasks : \A u \in FreeTasks : t <= u
           wpr  == WhenPrevIsRunning(kind)
           started == [tasks EXCEPT ![new] = [kind |-> kind, bck |-> bck, running |-> TRUE]]
       IN
       IF prev = {} \/ wpr = "WprKeepAndStartNew"
       THEN /\ FreeTasks # {}
            /\ tasks' = started
            /\ lastRenew' = [kind |-> kind, bck |-> bck, prev |-> prev, ret |-> new,
                             started |-> TRUE, after |-> prev \cup {new}]
       ELSE IF wpr = "WprUse"
       THEN /\ tasks' = tasks
            /\ lastRenew' = [kind |-> kind, bck |-> bck, prev |-> prev,
                             ret |-> CHOOSE t \in prev : \A u \in prev : t >= u,
                             started |-> FALSE, after |-> prev]
       ELSE /\ FreeTasks # {}
            /\ tasks' = [t \in TaskIds |->
                            IF t \in prev THEN [tasks[t] EXCEPT !.running = FALSE]
                            ELSE started[t]]
            /\ lastRenew' = [kind |-> kind, bck |-> bck, prev |-> prev, ret |-> new,
                             started |-> TRUE, after |-> {new}]

Renew(kind, bck) == renew(kind, bck) /\ UNCHANGED <<engineVars, cliVars>>

\* a task reaches Finished
TaskFinish(t) ==
    /\ tasks[t].running
    /\ tasks' = [tasks EXCEPT ![t].running = FALSE]
    /\ UNCHANGED lastRenew
    /\ UNCHANGED <<engineVars, cliVars>>

NextReg ==
    \/ \E kind \in Kinds, bck \in Bcks : Renew(kind, bck)
    \/ \E t \in TaskIds : TaskFinish(t)

SpecReg == Init /\ [][NextReg]_vars

\* ------------------------------------------------------------- claims: registry
\* C1: for the EC-get kind at most one task per bucket is running at any time, and a
\* Renew on a key with a live engine returns that engine and starts nothing; for the
\* ETL-inline kind a Renew on a live key starts a new task and leaves the previous
\* ones running.
C1_OneRunningUnlessKeepAndStartNew ==
    /\ \A b \in Bcks : Cardinality(RunningOf("ec-get", b)) <= 1
    /\ (lastRenew.kind = "ec-get" /\ lastRenew.prev # {}) =>
          /\ lastRenew.ret \in lastRenew.prev
          /\ ~lastRenew.started
          /\ lastRenew.after = lastRenew.prev
    /\ (lastRenew.kind = "etl-inline" /\ lastRenew.prev # {}) =>
          /\ lastRenew.started
          /\ lastRenew.ret \notin lastRenew.prev
          /\ lastRenew.after = lastRenew.prev \cup {lastRenew.ret}

C1_Witness ==
    /\ lastRenew.kind = "ec-get"
    /\ lastRenew.prev # {}
    /\ Cardinality(RunningOf("etl-inline", "nil")) >= 2

\* ------------------------------------------------------------- cli: blob-download
Flags   == {"progress", "wait", "nowait"}
Answers == {"started", "done", "fail"}   \* api.BlobDownload: an id, the empty id, an error
Results == {"ok", "err"}                 \* of waiting for, or polling, one job

\* blobDownloadHandler up to the call of blobStartAll: the names and the flags parsed
blobDownloadHandler(n, f) ==
    /\ cliPc = "idle"
    /\ objNames' = n
    /\ flag' = f
    /\ cliPc' = "start"
    /\ UNCHANGED <<outs, xids, cnt, stops, cliErr, wg, errCh, job, bars, barsDone>>
    /\ UNCHANGED <<engineVars, regVars>>

\* blobStartAll, one turn of its loop with the answer a of api.BlobDownload; on an
\* error xstop for every id collected, and `return nil, 0, err`, which the handler
\* returns; after the last name the handler returns when cnt is 0
blobStartAll(a) ==
    /\ cliPc = "start"
    /\ Len(outs) < objNames
    /\ outs' = Append(outs, a)
    /\ IF a = "fail"
       THEN /\ stops' = stops \o xids
            /\ xids' = <<>>
            /\ cnt' = 0
            /\ cliErr' = "err"
            /\ cliPc' = "returned"
       ELSE LET i == Len(outs) + 1
                c == IF a = "started" THEN cnt + 1 ELSE cnt
            IN  /\ xids' = Append(xids, IF a = "started" THEN i ELSE 0)
                /\ cnt' = c
                /\ stops' = stops
                /\ IF i < objNames
                   THEN UNCHANGED <<cliPc, cliErr>>
                   ELSE IF c = 0
                        THEN cliErr' = "nil" /\ cliPc' = "returned"
                        ELSE cliErr' = cliErr /\ cliPc' = "started"
    /\ UNCHANGED <<objNames, flag, wg, errCh, job, bars, barsDone>>
    /\ UNCHANGED <<engineVars, regVars>>

\* `select { case err = <-errCh: default: }`
recvErr(ch) == IF ch # <<>> THEN "err" ELSE "nil"

\* the handler with one name and no --progress: return at once, or _blobWaitOne
HandlerOne ==
    /\ cliPc = "started"
    /\ flag # "progress"
    /\ objNames = 1
    /\ IF flag = "nowait"
       THEN cliErr' = "nil" /\ cliPc' = "returned" /\ job' = job
       ELSE /\ cliPc' = "waitOne"
            /\ job' = [job EXCEPT ![1].st = "running"]
            /\ cliErr' = cliErr
    /\ UNCHANGED <<objNames, flag, outs, xids, cnt, stops, wg, errCh, bars, barsDone>>
    /\ UNCHANGED <<engineVars, regVars>>

\* _blobWaitOne of the single job returns, and the handler with it
WaitOneReturn(res) ==
    /\ cliPc = "waitOne"
    /\ job' = [job EXCEPT ![1].st = res]
    /\ cliErr' = IF res = "err" THEN "err" ELSE "nil"
    /\ cliPc' = "returned"
    /\ UNCHANGED <<objNames, flag, outs, xids, cnt, stops, wg, errCh, bars, barsDone>>
    /\ UNCHANGED <<engineVars, regVars>>

\* the handler with several names and no --progress: return at once, or wait multiple:
\* wg.Add(len(objNames)), then one goroutine for every non-empty id
HandlerMany ==
    /\ cliPc = "started"
    /\ flag # "progress"
    /\ objNames # 1
    /\ IF flag = "nowait"
       THEN /\ cliErr' = "nil" /\ cliPc' = "returned"
            /\ UNCHANGED <<wg, job>>
       ELSE /\ wg' = objNames
            /\ job' = [i \in ObjIds |->
                         IF i <= objNames /\ xids[i] # 0
                         THEN [st |-> "running", bar |-> 0] ELSE job[i]]
            /\ cliPc' = "wait"
            /\ cliErr' = cliErr
    /\ UNCHANGED <<objNames, flag, outs, xids, cnt, stops, errCh, bars, barsDone>>
    /\ UNCHANGED <<engineVars, regVars>>

\* the goroutine of wait multiple: _blobWaitOne returns, the error goes to errCh,
\* wg.Done()
WaitDone(i, res) ==
    /\ cliPc = "wait"
    /\ job[i].st = "running"
    /\ job' = [job EXCEPT ![i].st = res]
    /\ errCh' = IF res = "err" THEN Append(errCh, i) ELSE errCh
    /\ wg' = wg - 1
    /\ UNCHANGED <<cliPc, objNames, flag, outs, xids, cnt, stops, cliErr, bars, barsDone>>
    /\ UNCHANGED <<engineVars, regVars>>

\* wg.Wait() returns when the counter is 0; one error is taken from errCh, if any
WaitReturn ==
    /\ cliPc = "wait"
    /\ wg = 0
    /\ cliErr' = recvErr(errCh)
    /\ cliPc' = "returned"
    /\ UNCHANGED <<objNames, flag, outs, xids, cnt, stops, wg, errCh, job, bars, barsDone>>
    /\ UNCHANGED <<engineVars, regVars>>

\* simpleBar(bargs...): one bar for every non-empty id, in the order of the names
simpleBar(ids) == SelectSeq([k \in 1..Len(ids) |-> k], LAMBDA k : ids[k] # 0)

\* the names at which `bars[i]` is out of range (i counts from 1 here, from 0 in Go)
outOfRange(ids, bs) == {i \in 1..Len(ids) : ids[i] # 0 /\ i > Len(bs)}

\* blobAllProgress up to progress.Wait(): the bars, then for every name with a
\* non-empty id `go _blobOneProgress(xids[i], bars[i], ...)`; the index expression
\* panics when i is out of range, and the goroutines started before die with the process
blobAllProgress ==
    /\ cliPc = "started"
    /\ flag = "progress"
    /\ LET bs  == simpleBar(xids)
           bad == outOfRange(xids, bs)
       IN  /\ bars' = bs
           /\ job' = [i \in ObjIds |->
                        IF i <= objNames /\ xids[i] # 0 /\ \A b \in bad : i < b
                        THEN [st |-> "running", bar |-> i] ELSE job[i]]
           /\ cliPc' = IF bad # {} THEN "panic" ELSE "progressWait"
    /\ UNCHANGED <<objNames, flag, outs, xids, cnt, stops, cliErr, wg, errCh, barsDone>>
    /\ UNCHANGED <<engineVars, regVars>>

\* _blobOneProgress ends: the job is finished and the bar completed, or an error is
\* sent to errCh and the bar aborted
blobOneProgress(i, res) ==
    /\ cliPc = "progressWait"
    /\ job[i].st = "running"
    /\ job' = [job EXCEPT ![i].st = res]
    /\ errCh' = IF res = "err" THEN Append(errCh, i) ELSE errCh
    /\ barsDone' = barsDone \cup {job[i].bar}
    /\ UNCHANGED <<cliPc, objNames, flag, outs, xids, cnt, stops, cliErr, wg, bars>>
    /\ UNCHANGED <<engineVars, regVars>>

\* progress.Wait() returns when every bar is completed or aborted; blobAllProgress
\* and the handler return the error taken from errCh, if any
ProgressReturn ==
    /\ cliPc = "progressWait"
    /\ barsDone = 1..Len(bars)
    /\ cliErr' = recvErr(errCh)
    /\ cliPc' = "returned"
    /\ UNCHANGED <<objNames, flag, outs, xids, cnt, stops, wg, errCh, job, bars, barsDone>>
    /\ UNCHANGED <<engineVars, regVars>>

NextCli ==
    \/ \E n \in ObjIds, f \in Flags : blobDownloadHandler(n, f)
    \/ \E a \in Answers : blobStartAll(a)
    \/ HandlerOne
    \/ \E res \in Results : WaitOneReturn(res)
    \/ HandlerMany
    \/ \E i \in ObjIds, res \in Results : WaitDone(i, res)
    \/ WaitReturn
    \/ blobAllProgress
    \/ \E i \in ObjIds, res \in Results : blobOneProgress(i, res)
    \/ ProgressReturn

SpecCli == Init /\ [][NextCli]_vars

\* every goroutine of the command is scheduled, and every wait for one job ends
FairnessCli == WF_vars(NextCli)

FairSpecCli == SpecCli /\ FairnessCli

\* ------------------------------------------------------------- claims: cli
\* the goroutines of the wait or of the progress that have not ended
RunningJobs == {i \in ObjIds : job[i].st = "running"}

\* C21: the wait for several jobs ends: whatever the ids blobStartAll returned, empty
\* ones among them, the handler, once it waits, eventually returns; it returns when
\* no goroutine it spawned is still waiting, and with an error exactly when one of
\* them reported one.
C21_MultiWaitReturns ==
    /\ (cliPc = "wait") ~> (cliPc = "returned")
    /\ [][WaitReturn =>
              /\ RunningJobs = {}
              /\ cliErr' = "err" <=> \E i \in ObjIds : job[i].st = "err"]_vars

\* blobStartAll has returned: with an error, or with the ids of all names
StartFailed == outs # <<>> /\ outs[Len(outs)] = "fail"
StartedAll  == objNames > 0 /\ Len(outs) = objNames /\ ~StartFailed

\* the jobs api.BlobDownload has started for this call
StartedJobs == {i \in 1..Len(outs) : outs[i] = "started"}

\* how often xstop was called with id x
TimesStopped(x) == Cardinality({k \in 1..Len(stops) : stops[k] = x})

\* C24: when the start of a job fails, xstop has been called once with the id of
\* every job this call had started and with nothing else, and blobStartAll returns no
\* ids, the count 0 and the error; when every start succeeds nothing is stopped, and
\* it returns one id per name in the order of the names, the empty id for an object
\* already downloaded, and the number of non-empty ids as the count.
C24_AllOrNothing ==
    /\ StartFailed =>
          /\ \A x \in StartedJobs : TimesStopped(x) = 1
          /\ \A k \in 1..Len(stops) : stops[k] \in StartedJobs
          /\ xids = <<>> /\ cnt = 0 /\ cliErr = "err"
    /\ ~StartFailed => stops = <<>>
    /\ StartedAll =>
          /\ Len(xids) = objNames
          /\ \A i \in 1..objNames : xids[i] = IF outs[i] = "started" THEN i ELSE 0
          /\ cnt = Cardinality(StartedJobs)

\* C25: in blobAllProgress the index of `bars[i]` is always in range, and when the
\* pollers are out, every job with a non-empty id has one poller, and that poller has
\* the bar made for the object of its job.
C25_PollerHasItsBar ==
    /\ cliPc # "panic"
    /\ cliPc = "progressWait" =>
          \A i \in 1..objNames : xids[i] # 0 =>
              /\ job[i].st # "none"
              /\ job[i].bar \in 1..Len(bars)
              /\ bars[job[i].bar] = i

====
